---- MODULE Spec2Model ----
(***************************************************************************)
(* Model of the `techops status` command (src/cli/commands/status.py).     *)
(*                                                                         *)
(* Strings are modelled as sequences of tokens: a token is an atomic run   *)
(* of characters, concatenation is \o, equality of strings is equality of  *)
(* token sequences (every string used below has one tokenisation only).    *)
(* str.lower() maps tokens through Lower, `x in s` and startswith/endswith *)
(* are computed on the token sequences.                                    *)
(***************************************************************************)
EXTENDS Integers, Sequences, FiniteSets, TLC

\* ------------------------------------------------------------------------
\* Bounds of the model
\* ------------------------------------------------------------------------
MaxServices == 2
MaxFiles == 2
MaxLines == 2

\* ------------------------------------------------------------------------
\* Sequence helpers
\* ------------------------------------------------------------------------
Range(s) == {s[k] : k \in 1..Len(s)}

NoDup(s) == \A a, b \in 1..Len(s) : a # b => s[a] # s[b]

SeqsUpTo(S, n) == UNION {[1..m -> S] : m \in 0..n}

\* ------------------------------------------------------------------------
\* str.lower(), startswith, endswith, substring test
\* ------------------------------------------------------------------------
LowerTok(t) ==
    CASE t = "BREmployeePortal" -> "bremployeeportal"
      [] t = "Checkout"         -> "checkout"
      [] t = "Internal"         -> "internal"
      [] t = "svcA"             -> "svca"
      [] t = "QA"               -> "qa"
      [] OTHER                  -> t

Lower(s) == [k \in 1..Len(s) |-> LowerTok(s[k])]

StartsWith(s, p) == Len(p) <= Len(s) /\ SubSeq(s, 1, Len(p)) = p

EndsWith(s, p) == Len(p) <= Len(s) /\ SubSeq(s, Len(s) - Len(p) + 1, Len(s)) = p

\* the tokens that contain the text `sub` as a substring
TokHas(t, sub) ==
    CASE sub = "extern" -> t \in {"extern", "external"}
      [] sub = "intern" -> t \in {"intern", "internal"}
      [] sub = "lab"    -> t \in {"lab", "labels"}
      [] OTHER          -> t = sub

Contains(s, sub) == \E k \in 1..Len(s) : TokHas(s[k], sub)

\* ------------------------------------------------------------------------
\* Module-level configuration of status.py
\* ------------------------------------------------------------------------
ENVIRONMENTS == <<"lab", "qa", "sat", "prod">>

DEFAULT_SUFFIXES ==
    << <<"v1", "/", "statuscheck">>,
       <<"v1", "/", "resourcecheck">>,
       <<"v1", "/", "resourceinspect">> >>

BREMPL_SUFFIXES == << <<"healthcheck">> >>

None == "None"

\* ------------------------------------------------------------------------
\* The inputs: requested service names and the checked-out config folder
\* ------------------------------------------------------------------------
ServiceNames ==
    { <<"orders">>, <<"checkout">>, <<"svcA">>, <<"svcA", "v2">>, <<"ghost">>,
      <<"bremployeeportal", "-", "x">>, <<"BREmployeePortal">> }

FileNames ==
    { <<"orders", "-", "extern", ".conf">>,
      <<"orders", "-", "intern", ".conf">>,
      <<"orders", "v2", "-", "extern", ".conf">>,
      <<"svcA", ".conf">>,
      <<"svcA", "v2", "-", "intern", ".conf">>,
      <<"bremployeeportal", "-", "x", "-", "extern", ".conf">>,
      <<"Checkout", "-", "Internal", ".conf">> }

\* content of each fragment, as the token sequence of the file's text
FileContent(f) ==
    CASE f = <<"orders", "-", "extern", ".conf">> ->
              <<"location", " ", "/", "orders", "/", "api", " ", "{", " ", "}", "\n",
                "location", " ", "/", "orders", "/", "admin", " ", "{", " ", "}">>
      [] f = <<"orders", "-", "intern", ".conf">> ->
              <<"location", " ", "/", "orders", "/", "api", "{", "}">>
      [] f = <<"orders", "v2", "-", "extern", ".conf">> ->
              <<"location", " ", "/", "orders", "/", "api", " ", "{", " ", "}">>
      [] f = <<"svcA", ".conf">> ->
              <<"location", " ", "/", "api", " ", "{", " ", "}">>
      [] f = <<"svcA", "v2", "-", "intern", ".conf">> ->
              <<"location", " ", "@", "fallback", " ", "{", " ", "}", "\n",
                "location", " ", "/", "labels", "/", "api", " ", "{", "}">>
      [] f = <<"bremployeeportal", "-", "x", "-", "extern", ".conf">> ->
              <<"location", " ", " ", "/", "portal", "/", " ", "{", "}", "\n",
                "location", " ", "/", "portal", "/", " ", "{", "}">>
      [] f = <<"Checkout", "-", "Internal", ".conf">> ->
              <<"location", " ", "=", " ", "/", "exact", " ", "{", "}", "\n",
                "proxy_pass", " ", "/", "checkout", "/", "api">>
      [] OTHER -> <<>>

\* ------------------------------------------------------------------------
\* LOCATION_REGEX = location\s+([^\s{]+)  and  findall
\* ------------------------------------------------------------------------
IsSpace(t) == t \in {" ", "\n"}

RECURSIVE SkipSpace(_, _)
SkipSpace(toks, k) ==
    IF k <= Len(toks) /\ IsSpace(toks[k]) THEN SkipSpace(toks, k + 1) ELSE k

RECURSIVE CaptureEnd(_, _)
CaptureEnd(toks, k) ==
    IF k <= Len(toks) /\ ~IsSpace(toks[k]) /\ toks[k] # "{"
    THEN CaptureEnd(toks, k + 1) ELSE k

RECURSIVE FindAllFrom(_, _)
FindAllFrom(toks, k) ==
    IF k > Len(toks) THEN <<>>
    ELSE IF toks[k] = "location" /\ k + 1 <= Len(toks) /\ IsSpace(toks[k + 1])
         THEN LET s == SkipSpace(toks, k + 1)
                  e == CaptureEnd(toks, s)
              IN  IF e > s THEN <<SubSeq(toks, s, e - 1)>> \o FindAllFrom(toks, e)
                           ELSE FindAllFrom(toks, k + 1)
         ELSE FindAllFrom(toks, k + 1)

LOCATION_REGEX_findall(content) == FindAllFrom(content, 1)

IsApiLocation(loc) == StartsWith(loc, <<"/">>)

ApiLocations(content) == SelectSeq(LOCATION_REGEX_findall(content), IsApiLocation)

\* ------------------------------------------------------------------------
\* Suffix selection, visibility, host prefix, URL construction (pure parts)
\* ------------------------------------------------------------------------
\* faulty variant: the reserved prefix compared without lower()
SuffixesFor_CaseSensitive(svc) ==
    IF StartsWith(svc, <<"bremployeeportal">>) THEN BREMPL_SUFFIXES ELSE DEFAULT_SUFFIXES

SuffixesFor(svc) ==
    IF StartsWith(Lower(svc), <<"bremployeeportal">>) THEN BREMPL_SUFFIXES ELSE DEFAULT_SUFFIXES

MatchesService(f, svc) == StartsWith(Lower(f), Lower(svc)) /\ EndsWith(f, <<".conf">>)

\* faulty variant: a fragment naming neither kind is taken as internal
Visibility_DefaultInternal(filename) ==
    IF Contains(Lower(filename), "extern") THEN "external" ELSE "internal"

\* "external" (is_external = True), "internal" (is_external = False) or
\* "skip" (the else branch: warning and continue)
Visibility(filename) ==
    IF Contains(Lower(filename), "extern") THEN "external"
    ELSE IF Contains(Lower(filename), "intern") THEN "internal"
    ELSE "skip"

HostPrefix(env, is_external) ==
    IF env = "prod"
    THEN IF is_external THEN <<"https://", "onvio.com.br">>
                        ELSE <<"https://", "int", ".", "onvio.com.br">>
    ELSE <<"https://", env, "01", ".", "onvio.com.br">>

\* faulty variant: the suffix is left out of the URL
BuildUrl_NoSuffix(prefix, base_location, suffix) == prefix \o base_location

BuildUrl(prefix, base_location, suffix) == prefix \o base_location \o suffix

\* the URLs assigned for one environment, in loop order (location-major)
EnvUrls(env, is_external, api_locations, suffixes) ==
    [k \in 1..(Len(api_locations) * Len(suffixes)) |->
        BuildUrl(HostPrefix(env, is_external),
                 api_locations[((k - 1) \div Len(suffixes)) + 1],
                 suffixes[((k - 1) % Len(suffixes)) + 1])]

\* ------------------------------------------------------------------------
\* Python dicts: insertion-ordered, one entry per key
\* ------------------------------------------------------------------------
EmptyDict == <<>>

DictKeys(d) == {d[k].url : k \in 1..Len(d)}

\* info["status"]: None, an int (response.status_code) or the string
\* "CONNECTION ERROR (e)"
StatusNone == [kind |-> "none", code |-> 0, text |-> ""]

StatusInt(n) == [kind |-> "int", code |-> n, text |-> ""]

StatusStr(e) == [kind |-> "str", code |-> 0, text |-> e]

\* info["error_line"]: None or a str
NoneLine == [is_none |-> TRUE, line |-> <<>>]

StrLine(l) == [is_none |-> FALSE, line |-> l]

\* truth value of an error_line (None and "" are false)
Truthy(el) == ~el.is_none /\ el.line # <<>>

EmptyInfo == [status |-> StatusNone, error_line |-> NoneLine]

\* d[url] = info
DictSet(d, url, info) ==
    IF url \in DictKeys(d)
    THEN [k \in 1..Len(d) |-> IF d[k].url = url THEN [url |-> url, info |-> info] ELSE d[k]]
    ELSE Append(d, [url |-> url, info |-> info])

RECURSIVE DictSetAll(_, _)
DictSetAll(d, urls) ==
    IF urls = <<>> THEN d
    ELSE DictSetAll(DictSet(d, Head(urls), EmptyInfo), Tail(urls))

\* ------------------------------------------------------------------------
\* State of one run of the status command
\* ------------------------------------------------------------------------
VARIABLES
    services,            \* the click argument: tuple of requested names
    listing,             \* os.listdir(config_folder), in directory order
    repo_exists,         \* LOCAL_REPO_PATH.exists()
    pc,                  \* position in status()
    exc,                 \* the exception propagating out of status(), or None
    service_suffix_map,  \* svc -> suffix list
    results,             \* svc -> env -> url -> info
    i,                   \* index of the service the build loop is at
    matching_files,      \* matching_files of that service
    j,                   \* index of the file the inner loop is at
    stdout,              \* the warnings printed so far
    http_gets,           \* the URLs requests.get was called with, in order
    built,               \* history: per service, the keys each fragment assigned
    response,            \* the outcome of the HTTP GET of the probe at hand
    info,                \* the info dict of the probe at hand
    detail_out,          \* the lines the detailed report printed
    totals               \* the counters of the environment summary

\* the request loop and the two report sections, run on a given `output`
VARIABLES
    output,              \* the mapping the request loop iterates: svc -> urls
    scenario,            \* the stubbed HTTP layer: which endpoints fail, and how
    n,                   \* number of URLs of output the request loop has done
    report_detail,       \* the URL lines of the detailed report, as printed
    report_health,       \* per service, `not service_has_error`
    report_summary,      \* the counters printed per environment, as printed
    results_order        \* insertion order of the keys of results and results[svc]

reportVars == <<output, scenario, n, report_detail, report_health, report_summary,
                results_order>>

ReportIdle ==
    /\ output = <<>>
    /\ scenario = None
    /\ n = 0
    /\ report_detail = <<>>
    /\ report_health = <<>>
    /\ report_summary = <<>>
    /\ results_order = [svcs |-> <<>>, envs |-> <<>>]

VARIABLES
    run,                 \* which of two invocations in sequence is running
    first_run            \* what the first invocation ended with

twiceVars == <<run, first_run>>

NoOutcome == [ended |-> FALSE]

TwiceIdle ==
    /\ run = 1
    /\ first_run = NoOutcome

VARIABLES
    remote,              \* the source and target files at the head of the remote
    tmpdir_exists,       \* the temporary clone directory is on disk
    worktree,            \* the source and target files in the clone
    src_services,        \* src_data["services"], in key order
    tgt_services,        \* tgt_data["services"], in memory
    updates,             \* the (match, old_version, new_version) triples
    confirmed,           \* the answer to the commit prompt, None before it
    git_cmds             \* the git commands run, in order

promoteVars == <<remote, tmpdir_exists, worktree, src_services, tgt_services,
                 updates, confirmed, git_cmds>>

\* a file of the repository: absent, not parseable as JSON, or a document
\* with its "services" mapping
Missing == [kind |-> "missing", services |-> <<>>]

NotJson == [kind |-> "not_json", services |-> <<>>]

JsonFile(m) == [kind |-> "json", services |-> m]

PromoteIdle ==
    /\ remote = [src |-> Missing, tgt |-> Missing]
    /\ tmpdir_exists = FALSE
    /\ worktree = [src |-> Missing, tgt |-> Missing]
    /\ src_services = <<>>
    /\ tgt_services = <<>>
    /\ updates = <<>>
    /\ confirmed = None
    /\ git_cmds = <<>>

VARIABLES
    variant,             \* which terminate_asg_instances: "tools" or "asg"
    env_arg,             \* the env argument
    inventory,           \* the Auto Scaling Groups of the account
    choices,             \* the names offered in the checkbox
    selected_asgs,       \* the names the user selected
    next_asg,            \* position of the loop over selected_asgs
    answers,             \* the answer given to each group's prompt
    terminate_calls      \* the aws ec2 terminate-instances commands issued

terminateVars == <<variant, env_arg, inventory, choices, selected_asgs, next_asg, answers,
                   terminate_calls>>

TerminateIdle ==
    /\ variant = None
    /\ env_arg = None
    /\ inventory = <<>>
    /\ choices = <<>>
    /\ selected_asgs = <<>>
    /\ next_asg = 1
    /\ answers = <<>>
    /\ terminate_calls = <<>>

extraVars == <<reportVars, twiceVars, promoteVars, terminateVars>>

ExtraIdle ==
    /\ ReportIdle
    /\ TwiceIdle
    /\ PromoteIdle
    /\ TerminateIdle

vars == <<services, listing, repo_exists, pc, exc, service_suffix_map, results,
          i, matching_files, j, stdout, http_gets, built, response, info,
          detail_out, totals, extraVars>>

probeVars == <<response, info, detail_out, totals>>

Listings == {l \in SeqsUpTo(FileNames, MaxFiles) : NoDup(l)}

NoResponse == [transport |-> None, status_code |-> 0, text |-> <<>>]

ZeroTotals == [total_ok |-> 0, total_5xx |-> 0, total_404 |-> 0, total_failed_content |-> 0]

Init ==
    /\ ExtraIdle
    /\ services \in SeqsUpTo(ServiceNames, MaxServices)
    /\ listing \in Listings
    /\ repo_exists \in BOOLEAN
    /\ pc = "start"
    /\ exc = None
    /\ service_suffix_map = EmptyDict
    /\ results = EmptyDict
    /\ i = 1
    /\ matching_files = <<>>
    /\ j = 1
    /\ stdout = <<>>
    /\ http_gets = <<>>
    /\ built = EmptyDict
    /\ response = NoResponse
    /\ info = EmptyInfo
    /\ detail_out = <<>>
    /\ totals = ZeroTotals

\* ------------------------------------------------------------------------
\* status(): the steps of one run
\* ------------------------------------------------------------------------
\* click parses the arguments: services has nargs=-1, required=True, so an
\* empty list is a usage error raised before the body of status() runs
Invoke ==
    /\ UNCHANGED extraVars
    /\ pc = "start"
    /\ IF services = <<>>
       THEN /\ exc' = "UsageError"
            /\ pc' = "done"
       ELSE /\ exc' = exc
            /\ pc' = "clone"
    /\ UNCHANGED <<services, listing, repo_exists, service_suffix_map, results, i,
                   matching_files, j, stdout, http_gets, built, probeVars>>

\* git_clone_or_update(): every git call runs with check=True
git_clone_or_update ==
    /\ UNCHANGED extraVars
    /\ pc = "clone"
    /\ \E ok \in BOOLEAN :
          IF ok
          THEN /\ repo_exists' = TRUE
               /\ exc' = exc
               /\ pc' = "suffixes"
          ELSE \* a failed fetch leaves the clone, a failed clone may leave a
               \* partial directory
               /\ repo_exists' \in (IF repo_exists THEN {TRUE} ELSE BOOLEAN)
               /\ exc' = "CalledProcessError"
               /\ pc' = "finally"
    /\ UNCHANGED <<services, listing, service_suffix_map, results, i,
                   matching_files, j, stdout, http_gets, built, probeVars>>

\* the loop that fills service_suffix_map
SelectSuffixes ==
    /\ UNCHANGED extraVars
    /\ pc = "suffixes"
    /\ service_suffix_map' = [svc \in Range(services) |-> SuffixesFor(svc)]
    /\ i' = 1
    /\ pc' = "services"
    /\ UNCHANGED <<services, listing, repo_exists, exc, results,
                   matching_files, j, stdout, http_gets, built, probeVars>>

MatchingFiles(svc) == SelectSeq(listing, LAMBDA f : MatchesService(f, svc))

\* head of the service loop: list the fragments of services[i]
DiscoverFragments ==
    /\ UNCHANGED extraVars
    /\ pc = "services"
    /\ i <= Len(services)
    /\ LET svc == services[i]
           found == MatchingFiles(svc)
       IN  IF found = <<>>
           THEN /\ stdout' = Append(stdout, [msg |-> "no_config_file", arg |-> svc])
                /\ i' = i + 1
                /\ pc' = "services"
                /\ UNCHANGED <<results, matching_files, j, built>>
           ELSE /\ results' = (svc :> EmptyDict) @@ results
                /\ built' = (svc :> <<>>) @@ built
                /\ matching_files' = found
                /\ j' = 1
                /\ pc' = "files"
                /\ UNCHANGED <<stdout, i>>
    /\ UNCHANGED <<services, listing, repo_exists, exc, service_suffix_map,
                   http_gets, probeVars>>

\* results[svc] after the environment loop ran for one fragment
AssignUrls(by_env, is_external, api_locations, suffixes) ==
    [env \in Range(ENVIRONMENTS) |->
        DictSetAll(IF env \in DOMAIN by_env THEN by_env[env] ELSE EmptyDict,
                   EnvUrls(env, is_external, api_locations, suffixes))]

\* the (env, url) keys the environment loop assigns for one fragment
AssignedKeys(is_external, api_locations, suffixes) ==
    UNION {{<<env, url>> : url \in Range(EnvUrls(env, is_external, api_locations, suffixes))}
              : env \in Range(ENVIRONMENTS)}

\* body of the file loop for matching_files[j]
BuildTargets ==
    /\ UNCHANGED extraVars
    /\ pc = "files"
    /\ j <= Len(matching_files)
    /\ LET svc == services[i]
           filename == matching_files[j]
           vis == Visibility(filename)
           api_locations == ApiLocations(FileContent(filename))
           suffixes == service_suffix_map[svc]
       IN  IF vis = "skip"
           THEN /\ stdout' = Append(stdout, [msg |-> "no_internal_external", arg |-> filename])
                /\ built' = [built EXCEPT ![svc] =
                                Append(@, [file |-> filename, keys |-> {}])]
                /\ UNCHANGED results
           ELSE IF api_locations = <<>>
           THEN /\ stdout' = Append(stdout, [msg |-> "no_api_location", arg |-> filename])
                /\ built' = [built EXCEPT ![svc] =
                                Append(@, [file |-> filename, keys |-> {}])]
                /\ UNCHANGED results
           ELSE /\ results' = [results EXCEPT ![svc] =
                                AssignUrls(@, vis = "external", api_locations, suffixes)]
                /\ built' = [built EXCEPT ![svc] =
                                Append(@, [file |-> filename,
                                           keys |-> AssignedKeys(vis = "external",
                                                                 api_locations, suffixes)])]
                /\ UNCHANGED stdout
    /\ IF j < Len(matching_files)
       THEN /\ j' = j + 1
            /\ UNCHANGED <<i, pc>>
       ELSE /\ j' = 1
            /\ i' = i + 1
            /\ pc' = "services"
    /\ UNCHANGED <<services, listing, repo_exists, exc, service_suffix_map,
                   matching_files, http_gets, probeVars>>

\* the request loop: results is rebound to {} and the loop header reads the
\* name `output`, which nothing in the module binds: NameError
PerformRequests ==
    /\ UNCHANGED extraVars
    /\ pc = "services"
    /\ i > Len(services)
    /\ results' = EmptyDict
    /\ exc' = "NameError"
    /\ pc' = "finally"
    /\ UNCHANGED <<services, listing, repo_exists, service_suffix_map, i,
                   matching_files, j, stdout, http_gets, built, probeVars>>

\* faulty variant: the clone is left in place
cleanup_repo_KeepsRepo ==
    /\ pc = "finally"
    /\ pc' = "done"
    /\ UNCHANGED <<services, listing, repo_exists, exc, service_suffix_map, results, i,
                   matching_files, j, stdout, http_gets, built, probeVars, extraVars>>

\* finally: cleanup_repo()
cleanup_repo ==
    /\ UNCHANGED extraVars
    /\ pc = "finally"
    /\ repo_exists' = FALSE
    /\ pc' = "done"
    /\ UNCHANGED <<services, listing, exc, service_suffix_map, results, i,
                   matching_files, j, stdout, http_gets, built, probeVars>>

Next ==
    \/ Invoke
    \/ git_clone_or_update
    \/ SelectSuffixes
    \/ DiscoverFragments
    \/ BuildTargets
    \/ PerformRequests
    \/ cleanup_repo

Spec == Init /\ [][Next]_vars

TypeOK ==
    /\ pc \in {"start", "clone", "suffixes", "services", "files", "finally", "done"}
    /\ exc \in {None, "UsageError", "CalledProcessError", "NameError"}
    /\ http_gets = <<>>

\* ------------------------------------------------------------------------
\* One probe: requests.get, find_error_line and the two report sections
\* ------------------------------------------------------------------------
\* re.IGNORECASE: the upper-case form of a token
UpperTok(t) ==
    CASE t = "failed"   -> "FAILED"
      [] t = "error"    -> "ERROR"
      [] t = "Critical" -> "CRITICAL"
      [] OTHER          -> t

keywords == {"FAILED", "ERROR", "CRITICAL"}

\* pattern.search(line)
PatternSearch(line) == \E k \in 1..Len(line) : UpperTok(line[k]) \in keywords

\* str.splitlines(): split at line breaks, no empty last line
RECURSIVE SplitAt(_, _)
SplitAt(toks, cur) ==
    IF toks = <<>> THEN <<cur>>
    ELSE IF Head(toks) = "\n" THEN <<cur>> \o SplitAt(Tail(toks), <<>>)
    ELSE SplitAt(Tail(toks), Append(cur, Head(toks)))

splitlines(text) ==
    LET parts == SplitAt(text, <<>>)
    IN  IF parts[Len(parts)] = <<>> THEN SubSeq(parts, 1, Len(parts) - 1) ELSE parts

\* str.strip(): leading and trailing whitespace removed
RECURSIVE lstrip(_)
lstrip(line) ==
    IF line # <<>> /\ IsSpace(Head(line)) THEN lstrip(Tail(line)) ELSE line

RECURSIVE rstrip(_)
rstrip(line) ==
    IF line # <<>> /\ IsSpace(line[Len(line)])
    THEN rstrip(SubSeq(line, 1, Len(line) - 1)) ELSE line

strip(line) == rstrip(lstrip(line))

RECURSIVE FirstErrorLine(_)
FirstErrorLine(lines) ==
    IF lines = <<>> THEN NoneLine
    ELSE IF PatternSearch(Head(lines)) THEN StrLine(strip(Head(lines)))
    ELSE FirstErrorLine(Tail(lines))

RECURSIVE FirstErrorLine_Raw(_)
FirstErrorLine_Raw(lines) ==
    IF lines = <<>> THEN NoneLine
    ELSE IF PatternSearch(Head(lines)) THEN StrLine(Head(lines))
    ELSE FirstErrorLine_Raw(Tail(lines))

\* faulty variant: the matching line is returned as it stands in the body
find_error_line_NoStrip(text) == FirstErrorLine_Raw(splitlines(text))

find_error_line(text) == FirstErrorLine(splitlines(text))

\* the try/except around requests.get: the info dict of one URL
ProbeInfo(resp) ==
    IF resp.transport # "ok"
    THEN [status |-> StatusStr(resp.transport), error_line |-> NoneLine]
    ELSE [status |-> StatusInt(resp.status_code),
          error_line |-> IF resp.status_code = 200 THEN find_error_line(resp.text)
                                                     ELSE NoneLine]

IsInt(status) == status.kind = "int"

\* the if/elif chain of the detailed report: the line printed for one URL
DetailLine(nfo) ==
    LET status == nfo.status
        err_line == nfo.error_line
    IN  IF IsInt(status) /\ status.code = 200 /\ ~Truthy(err_line)
        THEN [kind |-> "OK", status |-> status, line |-> NoneLine]
        ELSE IF IsInt(status) /\ 500 <= status.code /\ status.code <= 599
        THEN [kind |-> "HTTP_5xx", status |-> status, line |-> NoneLine]
        ELSE IF IsInt(status) /\ status.code = 404
        THEN [kind |-> "HTTP_404", status |-> status, line |-> NoneLine]
        ELSE IF Truthy(err_line)
        THEN [kind |-> "FAILED_in_response", status |-> status, line |-> err_line]
        ELSE [kind |-> "status", status |-> status, line |-> NoneLine]

\* the if/elif chain of the environment summary: the counters after one URL
SummaryCount(t, nfo) ==
    LET status == nfo.status
        err_line == nfo.error_line
    IN  IF IsInt(status) /\ status.code = 200 /\ ~Truthy(err_line)
        THEN [t EXCEPT !.total_ok = @ + 1]
        ELSE IF IsInt(status) /\ 500 <= status.code /\ status.code <= 599
        THEN [t EXCEPT !.total_5xx = @ + 1]
        ELSE IF IsInt(status) /\ status.code = 404
        THEN [t EXCEPT !.total_404 = @ + 1]
        ELSE IF Truthy(err_line)
        THEN [t EXCEPT !.total_failed_content = @ + 1]
        ELSE t

\* the stubbed HTTP layer: what one GET can come back with
StatusCodes == {200, 201, 301, 403, 404, 499, 500, 503, 599, 600}

TransportErrors == {"ConnectTimeout", "ConnectionError"}

BodyLines ==
    { <<"batch job", " ", "FAILED", " ", "at step 3">>,
      <<" ", "error", ":", " ", "disk">>,
      <<"Critical", " ">>,
      <<"status", " ", "UP">>,
      <<" ", "all good">>,
      <<>> }

RECURSIVE JoinLines(_)
JoinLines(lines) ==
    IF lines = <<>> THEN <<>>
    ELSE IF Len(lines) = 1 THEN lines[1]
    ELSE Head(lines) \o <<"\n">> \o JoinLines(Tail(lines))

Bodies == {JoinLines(ls) : ls \in SeqsUpTo(BodyLines, MaxLines)}

Responses ==
    [transport : {"ok"}, status_code : StatusCodes, text : Bodies]
      \cup [transport : TransportErrors, status_code : {0}, text : {<<>>}]

ProbeUrl == HostPrefix("lab", TRUE) \o <<"/", "api">> \o DEFAULT_SUFFIXES[1]

InitProbe ==
    /\ ExtraIdle
    /\ services = <<>>
    /\ listing = <<>>
    /\ repo_exists = TRUE
    /\ pc = "get"
    /\ exc = None
    /\ service_suffix_map = EmptyDict
    /\ results = EmptyDict
    /\ i = 1
    /\ matching_files = <<>>
    /\ j = 1
    /\ stdout = <<>>
    /\ http_gets = <<>>
    /\ built = EmptyDict
    /\ response \in Responses
    /\ info = EmptyInfo
    /\ detail_out = <<>>
    /\ totals = ZeroTotals

runVars == <<services, listing, repo_exists, exc, service_suffix_map, results,
             i, matching_files, j, stdout, built>>

\* body of the URL loop: one requests.get(url, timeout=TIMEOUT), no retry
RequestsGet ==
    /\ UNCHANGED extraVars
    /\ pc = "get"
    /\ http_gets' = Append(http_gets, ProbeUrl)
    /\ info' = ProbeInfo(response)
    /\ pc' = "detail"
    /\ UNCHANGED <<runVars, response, detail_out, totals>>

\* detailed URL report, one URL
DetailReport ==
    /\ UNCHANGED extraVars
    /\ pc = "detail"
    /\ detail_out' = Append(detail_out, DetailLine(info))
    /\ pc' = "summary"
    /\ UNCHANGED <<runVars, response, info, http_gets, totals>>

\* summary by environment, one URL
SummaryReport ==
    /\ UNCHANGED extraVars
    /\ pc = "summary"
    /\ totals' = SummaryCount(totals, info)
    /\ pc' = "end"
    /\ UNCHANGED <<runVars, response, info, http_gets, detail_out>>

NextProbe ==
    \/ RequestsGet
    \/ DetailReport
    \/ SummaryReport

SpecProbe == InitProbe /\ [][NextProbe]_vars

\* ------------------------------------------------------------------------
\* The request loop and the report sections over a given `output`
\*
\* Nothing in status.py binds `output`; the loop is modelled as a function of
\* the mapping it iterates (svc -> URLs, each URL one that the build loop
\* can assign) and of the stubbed HTTP layer.
\* ------------------------------------------------------------------------
MaxUrls == 3

RECURSIVE Concat(_)
Concat(ss) == IF ss = <<>> THEN <<>> ELSE Head(ss) \o Concat(Tail(ss))

\* the keys of a sequence of pairs, in order of first appearance
RECURSIVE FirstSeen(_, _)
FirstSeen(s, seen) ==
    IF s = <<>> THEN seen
    ELSE IF Head(s) \in Range(seen) THEN FirstSeen(Tail(s), seen)
    ELSE FirstSeen(Tail(s), Append(seen, Head(s)))

PortalService == <<"bremployeeportal", "-", "x">>

LabelsService == <<"svcA", "v2">>

\* targets the build loop assigns: those of bremployeeportal-x-extern.conf
\* and those of svcAv2-intern.conf with the first default suffix, each with
\* the environment it was built for
ProbePool ==
    {[svc |-> PortalService, env |-> key[1], url |-> key[2]] :
        key \in AssignedKeys(TRUE,
                   ApiLocations(FileContent(<<"bremployeeportal", "-", "x", "-", "extern", ".conf">>)),
                   SuffixesFor(PortalService))}
      \cup
    {[svc |-> LabelsService, env |-> key[1], url |-> key[2]] :
        key \in AssignedKeys(FALSE,
                   ApiLocations(FileContent(<<"svcA", "v2", "-", "intern", ".conf">>)),
                   <<DEFAULT_SUFFIXES[1]>>)}

\* output as a dict svc -> urls: services in order of first appearance
OutputOf(flat) ==
    LET svcs == FirstSeen([x \in 1..Len(flat) |-> flat[x].svc], <<>>)
    IN  [x \in 1..Len(svcs) |->
            [svc |-> svcs[x], urls |-> SelectSeq(flat, LAMBDA t : t.svc = svcs[x])]]

\* the URLs in the order the nested loops reach them
Items(out) == Concat([x \in 1..Len(out) |-> out[x].urls])

\* faulty variant: no URL holds an environment name, every result is filed
\* under the default
DetectEnv_AlwaysDefault(url) == "prod"

\* env = next((e for e in ENVIRONMENTS if e in url.lower()), "prod")
DetectEnv(url) ==
    IF \E x \in 1..Len(ENVIRONMENTS) : Contains(Lower(url), ENVIRONMENTS[x])
    THEN ENVIRONMENTS[CHOOSE x \in 1..Len(ENVIRONMENTS) :
                          /\ Contains(Lower(url), ENVIRONMENTS[x])
                          /\ \A y \in 1..(x - 1) : ~Contains(Lower(url), ENVIRONMENTS[y])]
    ELSE "prod"

\* the environment whose host a URL names
HostEnv(url) == IF url[2] \in {"lab", "qa", "sat"} THEN url[2] ELSE "prod"

Scenarios ==
    {"all_ok", "lab_refused", "qa_forbidden", "prod_unavailable", "labels_not_found",
     "sat_failed_body"}

OkResponse == [transport |-> "ok", status_code |-> 200, text |-> <<"status", " ", "UP">>]

\* what the GET of a URL comes back with in a scenario
StubResponse(sc, url) ==
    CASE sc = "lab_refused" /\ HostEnv(url) = "lab" ->
             [transport |-> "ConnectionError", status_code |-> 0, text |-> <<>>]
      [] sc = "qa_forbidden" /\ HostEnv(url) = "qa" ->
             [transport |-> "ok", status_code |-> 403, text |-> <<>>]
      [] sc = "prod_unavailable" /\ HostEnv(url) = "prod" ->
             [transport |-> "ok", status_code |-> 503, text |-> <<>>]
      [] sc = "labels_not_found" /\ Contains(url, "labels") ->
             [transport |-> "ok", status_code |-> 404, text |-> <<>>]
      [] sc = "sat_failed_body" /\ HostEnv(url) = "sat" ->
             [transport |-> "ok", status_code |-> 200,
              text |-> <<"batch job", " ", "FAILED", " ", "at step 3">>]
      [] OTHER -> OkResponse

InitReport ==
    /\ services = <<>>
    /\ listing = <<>>
    /\ repo_exists = TRUE
    /\ pc = "requests"
    /\ exc = None
    /\ results = EmptyDict
    /\ i = 1
    /\ matching_files = <<>>
    /\ j = 1
    /\ stdout = <<>>
    /\ http_gets = <<>>
    /\ built = EmptyDict
    /\ response = NoResponse
    /\ info = EmptyInfo
    /\ detail_out = <<>>
    /\ totals = ZeroTotals
    /\ \E flat \in {l \in SeqsUpTo(ProbePool, MaxUrls) : NoDup(l)} :
          /\ output = OutputOf(flat)
          /\ service_suffix_map = [svc \in {t.svc : t \in Range(flat)} |-> SuffixesFor(svc)]
    /\ scenario \in Scenarios
    /\ n = 0
    /\ report_detail = <<>>
    /\ report_health = <<>>
    /\ report_summary = <<>>
    /\ results_order = [svcs |-> <<>>, envs |-> <<>>]
    /\ TwiceIdle
    /\ PromoteIdle
    /\ TerminateIdle

buildVars == <<services, listing, repo_exists, exc, service_suffix_map, i,
               matching_files, j, stdout, built, detail_out, totals>>

\* body of the URL loop for the next URL of output: env detection, one
\* requests.get, results[svc][env][url] = info
ProbeNext ==
    /\ UNCHANGED <<twiceVars, promoteVars, terminateVars>>
    /\ pc = "requests"
    /\ n < Len(Items(output))
    /\ LET t == Items(output)[n + 1]
           svc == t.svc
           url == t.url
           env == DetectEnv(url)
           by_env == IF svc \in DOMAIN results THEN results[svc] ELSE EmptyDict
           urls_info == IF env \in DOMAIN by_env THEN by_env[env] ELSE EmptyDict
           got == StubResponse(scenario, url)
       IN  /\ response' = got
           /\ info' = ProbeInfo(got)
           /\ http_gets' = Append(http_gets, url)
           /\ results' = (svc :> ((env :> DictSet(urls_info, url, ProbeInfo(got))) @@ by_env))
                            @@ results
           /\ results_order' =
                 [svcs |-> IF svc \in Range(results_order.svcs) THEN results_order.svcs
                           ELSE Append(results_order.svcs, svc),
                  envs |-> (svc :> (IF svc \in DOMAIN results_order.envs
                                    THEN IF env \in Range(results_order.envs[svc])
                                         THEN results_order.envs[svc]
                                         ELSE Append(results_order.envs[svc], env)
                                    ELSE <<env>>))
                              @@ results_order.envs]
    /\ n' = n + 1
    /\ UNCHANGED <<buildVars, pc, output, scenario, report_detail, report_health,
                   report_summary>>

\* the printed URL lines of one service, in the order of env_data.items()
\* and urls_info.items()
ServiceLines(svc) ==
    Concat([x \in 1..Len(results_order.envs[svc]) |->
              LET env == results_order.envs[svc][x]
                  urls_info == results[svc][env]
              IN  [y \in 1..Len(urls_info) |->
                      [svc |-> svc, env |-> env, url |-> urls_info[y].url,
                       line |-> DetailLine(urls_info[y].info)]]])

\* service_has_error after the lines of a service
HasError(lines) == \E x \in 1..Len(lines) : lines[x].line.kind # "OK"

\* the detailed URL report
DetailedUrlReport ==
    /\ UNCHANGED <<twiceVars, promoteVars, terminateVars>>
    /\ pc = "requests"
    /\ n = Len(Items(output))
    /\ report_detail' =
          Concat([x \in 1..Len(results_order.svcs) |-> ServiceLines(results_order.svcs[x])])
    /\ report_health' =
          [svc \in Range(results_order.svcs) |-> ~HasError(ServiceLines(svc))]
    /\ pc' = "summary"
    /\ UNCHANGED <<buildVars, results, http_gets, response, info, output, scenario, n,
                   report_summary, results_order>>

RECURSIVE CountAll(_, _)
CountAll(t, urls_info) ==
    IF urls_info = <<>> THEN t
    ELSE CountAll(SummaryCount(t, Head(urls_info).info), Tail(urls_info))

RECURSIVE CountServices(_, _, _)
CountServices(t, svcs, env) ==
    IF svcs = <<>> THEN t
    ELSE CountServices(IF env \in DOMAIN results[Head(svcs)]
                       THEN CountAll(t, results[Head(svcs)][env]) ELSE t,
                       Tail(svcs), env)

\* the summary by environment
SummaryByEnvironment ==
    /\ UNCHANGED <<twiceVars, promoteVars, terminateVars>>
    /\ pc = "summary"
    /\ report_summary' =
          [x \in 1..Len(ENVIRONMENTS) |->
              [env |-> ENVIRONMENTS[x],
               totals |-> CountServices(ZeroTotals, results_order.svcs, ENVIRONMENTS[x])]]
    /\ pc' = "end"
    /\ UNCHANGED <<buildVars, results, http_gets, response, info, output, scenario, n,
                   report_detail, report_health, results_order>>

NextReport ==
    \/ ProbeNext
    \/ DetailedUrlReport
    \/ SummaryByEnvironment

SpecReport == InitReport /\ [][NextReport]_vars

\* ------------------------------------------------------------------------
\* Two invocations of status in sequence
\*
\* Each invocation is a new process: its locals start afresh, the services
\* asked for and the configuration repository are the same, and what the
\* first run left on disk at LOCAL_REPO_PATH is what the second run finds.
\* ------------------------------------------------------------------------
TwiceListings ==
    { <<>>,
      << <<"orders", "-", "extern", ".conf">>, <<"orders", "-", "intern", ".conf">> >>,
      << <<"svcA", ".conf">>, <<"svcA", "v2", "-", "intern", ".conf">> >>,
      << <<"bremployeeportal", "-", "x", "-", "extern", ".conf">>,
         <<"Checkout", "-", "Internal", ".conf">> >> }

InitTwice ==
    /\ Init
    /\ listing \in TwiceListings

\* what an invocation produced when it ended
Outcome ==
    [ended |-> TRUE, exc |-> exc, built |-> built, results |-> results,
     http_gets |-> http_gets, stdout |-> stdout,
     service_suffix_map |-> service_suffix_map]

\* faulty variant: the second invocation starts from the locals the first
\* one ended with
RunAgain_KeepLocals ==
    /\ pc = "done"
    /\ run = 1
    /\ first_run' = Outcome
    /\ run' = 2
    /\ pc' = "start"
    /\ exc' = None
    /\ i' = 1
    /\ j' = 1
    /\ UNCHANGED <<services, listing, repo_exists, service_suffix_map, results,
                   matching_files, stdout, http_gets, built, probeVars, reportVars, promoteVars,
                   terminateVars>>

\* the command is invoked a second time after the first invocation ended
RunAgain ==
    /\ pc = "done"
    /\ run = 1
    /\ first_run' = Outcome
    /\ run' = 2
    /\ pc' = "start"
    /\ exc' = None
    /\ service_suffix_map' = EmptyDict
    /\ results' = EmptyDict
    /\ i' = 1
    /\ matching_files' = <<>>
    /\ j' = 1
    /\ stdout' = <<>>
    /\ http_gets' = <<>>
    /\ built' = EmptyDict
    /\ UNCHANGED <<services, listing, repo_exists, probeVars, reportVars, promoteVars,
                   terminateVars>>

NextTwice ==
    \/ Next
    \/ RunAgain

SpecTwice == InitTwice /\ [][NextTwice]_vars

\* ------------------------------------------------------------------------
\* utils.py: promote_services(services, source_file, target_file)
\*
\* A "services" mapping of the source file is a sequence of [name, version]
\* entries in key order; the one of the target file is a function from
\* names to versions.
\* ------------------------------------------------------------------------
MaxEntries == 2

PromoteNames == { <<"checkout">>, <<"Checkout">>, <<"orders">> }

Versions == {"1.0", "2.0"}

SourceMappings ==
    {m \in SeqsUpTo([name : PromoteNames, version : Versions], MaxEntries) :
        NoDup([x \in 1..Len(m) |-> m[x].name])}

TargetMappings ==
    UNION {[D -> Versions] : D \in SUBSET { <<"checkout">>, <<"orders">> }}

SourceFiles == {Missing, NotJson} \cup {JsonFile(m) : m \in SourceMappings}

TargetFiles == {Missing, NotJson} \cup {JsonFile(m) : m \in TargetMappings}

\* dict.get(key): None when the key is absent
Get(d, key) == IF key \in DOMAIN d THEN d[key] ELSE None

InitPromote ==
    /\ services \in SeqsUpTo(PromoteNames, MaxServices)
    /\ listing = <<>>
    /\ repo_exists = FALSE
    /\ pc = "promote"
    /\ exc = None
    /\ service_suffix_map = EmptyDict
    /\ results = EmptyDict
    /\ i = 1
    /\ matching_files = <<>>
    /\ j = 1
    /\ stdout = <<>>
    /\ http_gets = <<>>
    /\ built = EmptyDict
    /\ response = NoResponse
    /\ info = EmptyInfo
    /\ detail_out = <<>>
    /\ totals = ZeroTotals
    /\ ReportIdle
    /\ TwiceIdle
    /\ remote \in [src : SourceFiles, tgt : TargetFiles]
    /\ tmpdir_exists = FALSE
    /\ worktree = [src |-> Missing, tgt |-> Missing]
    /\ src_services = <<>>
    /\ tgt_services = <<>>
    /\ updates = <<>>
    /\ confirmed = None
    /\ git_cmds = <<>>
    /\ TerminateIdle

statusVars == <<services, listing, repo_exists, service_suffix_map, results, i,
                matching_files, j, stdout, http_gets, built, probeVars,
                reportVars, twiceVars, terminateVars>>

\* lines 33-40: the empty check, mkdtemp and git clone through run_cmd
\* (check=True)
CloneToTmpdir ==
    /\ pc = "promote"
    /\ IF services = <<>>
       THEN /\ pc' = "returned"
            /\ UNCHANGED <<exc, tmpdir_exists, worktree, git_cmds>>
       ELSE /\ tmpdir_exists' = TRUE
            /\ git_cmds' = Append(git_cmds, "clone")
            /\ \/ /\ worktree' = remote
                  /\ pc' = "check_files"
                  /\ exc' = exc
               \/ /\ worktree' = worktree
                  /\ pc' = "raised"
                  /\ exc' = "CalledProcessError"
    /\ UNCHANGED <<statusVars, remote, src_services, tgt_services, updates, confirmed>>

\* lines 47-54: a missing source or target file ends the run
CheckFiles ==
    /\ pc = "check_files"
    /\ IF worktree.src = Missing \/ worktree.tgt = Missing
       THEN /\ tmpdir_exists' = FALSE
            /\ pc' = "returned"
       ELSE /\ tmpdir_exists' = tmpdir_exists
            /\ pc' = "load"
    /\ UNCHANGED <<statusVars, exc, remote, worktree, src_services, tgt_services,
                   updates, confirmed, git_cmds>>

\* lines 57-63: json.load of both files
LoadJson ==
    /\ pc = "load"
    /\ IF worktree.src = NotJson \/ worktree.tgt = NotJson
       THEN /\ exc' = "JSONDecodeError"
            /\ pc' = "raised"
            /\ UNCHANGED <<src_services, tgt_services>>
       ELSE /\ src_services' = worktree.src.services
            /\ tgt_services' = worktree.tgt.services
            /\ exc' = exc
            /\ pc' = "updates"
    /\ UNCHANGED <<statusVars, remote, tmpdir_exists, worktree, updates, confirmed,
                   git_cmds>>

\* next((k for k in src_services if k.lower() == svc.lower()), None), as
\* the index of the entry, 0 for None
Match(src, svc) ==
    IF \E x \in 1..Len(src) : Lower(src[x].name) = Lower(svc)
    THEN CHOOSE x \in 1..Len(src) :
            /\ Lower(src[x].name) = Lower(svc)
            /\ \A y \in 1..(x - 1) : Lower(src[y].name) # Lower(svc)
    ELSE 0

\* lines 65-80: the loop over the requested services, from the state
\* [tgt, updates] it has reached
RECURSIVE UpdateLoop(_, _, _)
UpdateLoop(svcs, src, st) ==
    IF svcs = <<>> THEN st
    ELSE LET m == Match(src, Head(svcs))
         IN  IF m = 0 THEN UpdateLoop(Tail(svcs), src, st)
             ELSE LET match == src[m].name
                      new_version == src[m].version
                      old_version == Get(st.tgt, match)
                  IN  IF old_version = new_version
                      THEN UpdateLoop(Tail(svcs), src, st)
                      ELSE UpdateLoop(Tail(svcs), src,
                               [tgt |-> (match :> new_version) @@ st.tgt,
                                updates |-> Append(st.updates,
                                               <<match, old_version, new_version>>)])

\* lines 65-85: compute the updates; without any the run ends
ComputeUpdates ==
    /\ pc = "updates"
    /\ LET st == UpdateLoop(services, src_services, [tgt |-> tgt_services, updates |-> <<>>])
       IN  /\ tgt_services' = st.tgt
           /\ updates' = st.updates
           /\ IF st.updates = <<>>
              THEN /\ tmpdir_exists' = FALSE
                   /\ pc' = "returned"
              ELSE /\ tmpdir_exists' = tmpdir_exists
                   /\ pc' = "confirm"
    /\ UNCHANGED <<statusVars, exc, remote, worktree, src_services, confirmed, git_cmds>>

\* faulty variant: the answer to the prompt is not looked at
ConfirmPrompt_IgnoresAnswer ==
    /\ pc = "confirm"
    /\ confirmed' \in {"yes", "no"}
    /\ pc' = "commit_push"
    /\ UNCHANGED <<statusVars, exc, remote, tmpdir_exists, worktree, src_services,
                   tgt_services, updates, git_cmds>>

\* lines 93-99: click.confirm
ConfirmPrompt ==
    /\ pc = "confirm"
    /\ confirmed' \in {"yes", "no"}
    /\ pc' = IF confirmed' = "yes" THEN "commit_push" ELSE "cleanup"
    /\ UNCHANGED <<statusVars, exc, remote, tmpdir_exists, worktree, src_services,
                   tgt_services, updates, git_cmds>>

\* git_commit_push: git add, git commit, git push, each through run_cmd
\* with check=True. git commit exits non-zero when the added file does not
\* differ from the commit the clone checked out.
git_commit_push ==
    /\ pc = "commit_push"
    /\ IF worktree.tgt = remote.tgt
       THEN /\ git_cmds' = git_cmds \o <<"add", "commit">>
            /\ exc' = "CalledProcessError"
            /\ pc' = "raised"
            /\ remote' = remote
       ELSE /\ git_cmds' = git_cmds \o <<"add", "commit", "push">>
            /\ \/ /\ remote' = [remote EXCEPT !.tgt = worktree.tgt]
                  /\ exc' = exc
                  /\ pc' = "cleanup"
               \/ /\ remote' = remote
                  /\ exc' = "CalledProcessError"
                  /\ pc' = "raised"
    /\ UNCHANGED <<statusVars, tmpdir_exists, worktree, src_services, tgt_services,
                   updates, confirmed>>

\* lines 101-104: shutil.rmtree(tmpdir)
CleanupClone ==
    /\ pc = "cleanup"
    /\ tmpdir_exists' = FALSE
    /\ pc' = "returned"
    /\ UNCHANGED <<statusVars, exc, remote, worktree, src_services, tgt_services,
                   updates, confirmed, git_cmds>>

NextPromote ==
    \/ CloneToTmpdir
    \/ CheckFiles
    \/ LoadJson
    \/ ComputeUpdates
    \/ ConfirmPrompt
    \/ git_commit_push
    \/ CleanupClone

SpecPromote == InitPromote /\ [][NextPromote]_vars

\* ------------------------------------------------------------------------
\* terminate_asg_instances: tools.py (aws terminate) and asg.py
\* ------------------------------------------------------------------------
MaxGroups == 2

env_map == [lab |-> "preprod", qa |-> "preprod", sat |-> "preprod", prod |-> "prod"]

Tag(key, value) == [Key |-> key, Value |-> value]

Asg(name, tags, instances) ==
    [AutoScalingGroupName |-> name, Tags |-> tags, Instances |-> instances]

GroupPool ==
    { Asg("asg-a", {Tag("platform", "onviobr"), Tag("env", "qa")}, <<"i-1", "i-2">>),
      Asg("asg-b", {Tag("platform", "onviobr"), Tag("env", "QA")}, <<"i-3">>),
      Asg("asg-c", {Tag("platform", "other"), Tag("env", "qa")}, <<"i-4">>),
      Asg("asg-d", {Tag("platform", "onviobr"), Tag("name", "qa")}, <<"i-5">>),
      Asg("asg-e", {Tag("platform", "onviobr"), Tag("env", "dev")}, <<"i-6">>),
      Asg("asg-f", {Tag("platform", "onviobr"), Tag("env", "qa")}, <<>>),
      Asg("asg-g", {Tag("env", "qa")}, <<"i-7">>) }

EnvArgs == {"qa", "QA", "dev", "prod"}

\* the tag key each variant compares with env
EnvTagKey(v) == IF v = "tools" THEN "env" ELSE "name"

\* faulty variant: the platform tag is not looked at
IsMatchingAsg_AnyPlatform(asg, v, e) ==
    \E t \in asg.Tags : t.Key = EnvTagKey(v) /\ LowerTok(t.Value) = LowerTok(e)

\* the filter on platform=onviobr and env/name=<env>
IsMatchingAsg(asg, v, e) ==
    /\ \E t \in asg.Tags : t.Key = "platform" /\ t.Value = "onviobr"
    /\ \E t \in asg.Tags : t.Key = EnvTagKey(v) /\ LowerTok(t.Value) = LowerTok(e)

\* the sub-sequences of a sequence, in its order
SubSeqs(s) ==
    {SelectSeq(s, LAMBDA e : e \in picked) : picked \in SUBSET Range(s)}

\* describe-auto-scaling-groups --auto-scaling-group-names asg_name: the
\* InstanceIds of the groups returned
InstanceIds(asg_name) ==
    Concat([x \in 1..Len(inventory) |->
              IF inventory[x].AutoScalingGroupName = asg_name
              THEN inventory[x].Instances ELSE <<>>])

InitTerminate ==
    /\ services = <<>>
    /\ listing = <<>>
    /\ repo_exists = FALSE
    /\ exc = None
    /\ service_suffix_map = EmptyDict
    /\ results = EmptyDict
    /\ i = 1
    /\ matching_files = <<>>
    /\ j = 1
    /\ stdout = <<>>
    /\ http_gets = <<>>
    /\ built = EmptyDict
    /\ response = NoResponse
    /\ info = EmptyInfo
    /\ detail_out = <<>>
    /\ totals = ZeroTotals
    /\ ReportIdle
    /\ TwiceIdle
    /\ PromoteIdle
    /\ variant \in {"tools", "asg"}
    /\ pc = IF variant = "tools" THEN "check_env" ELSE "describe"
    /\ env_arg \in EnvArgs
    /\ inventory \in {l \in SeqsUpTo(GroupPool, MaxGroups) : NoDup(l)}
    /\ choices = <<>>
    /\ selected_asgs = <<>>
    /\ next_asg = 1
    /\ answers = <<>>
    /\ terminate_calls = <<>>

otherVars == <<services, listing, repo_exists, service_suffix_map, results, i,
               matching_files, j, stdout, http_gets, built, probeVars,
               reportVars, twiceVars, promoteVars>>

\* tools.py 121-126: an env outside env_map ends the command
CheckEnvironment ==
    /\ pc = "check_env"
    /\ pc' = IF LowerTok(env_arg) \in DOMAIN env_map THEN "describe" ELSE "returned"
    /\ UNCHANGED <<otherVars, exc, terminateVars>>

\* the first describe-auto-scaling-groups and the tag filter. In asg.py the
\* name run_aws_cli is bound to the click command made by the decorators of
\* lines 6-9, so the call parses its argument as a command line and exits.
DescribeAndFilter ==
    /\ pc = "describe"
    /\ IF variant = "asg"
       THEN /\ exc' = "SystemExit"
            /\ pc' = "raised"
            /\ choices' = choices
       ELSE \/ /\ exc' = "CalledProcessError"
               /\ pc' = "raised"
               /\ choices' = choices
            \/ /\ exc' = exc
               /\ LET matching_asgs == SelectSeq(inventory,
                                          LAMBDA asg : IsMatchingAsg(asg, variant, env_arg))
                  IN  /\ choices' = [x \in 1..Len(matching_asgs) |->
                                        matching_asgs[x].AutoScalingGroupName]
                      /\ pc' = IF inventory = <<>> \/ matching_asgs = <<>>
                               THEN "returned" ELSE "select"
    /\ UNCHANGED <<otherVars, variant, env_arg, inventory, selected_asgs, next_asg,
                   answers, terminate_calls>>

\* the checkbox: any selection of the choices, or Ctrl+C
SelectGroups ==
    /\ pc = "select"
    /\ \/ /\ selected_asgs' = selected_asgs
          /\ pc' = "returned"
       \/ \E sel \in SubSeqs(choices) :
             /\ selected_asgs' = sel
             /\ pc' = IF sel = <<>> THEN "returned" ELSE "terminate"
    /\ UNCHANGED <<otherVars, exc, variant, env_arg, inventory, choices, next_asg,
                   answers, terminate_calls>>

\* one pass of the loop over selected_asgs: describe the group, ask, and
\* on yes run aws ec2 terminate-instances (check=True)
TerminateGroup ==
    /\ pc = "terminate"
    /\ next_asg <= Len(selected_asgs)
    /\ LET asg_name == selected_asgs[next_asg]
           instance_ids == InstanceIds(asg_name)
       IN  IF instance_ids = <<>>
           THEN UNCHANGED <<exc, pc, answers, terminate_calls>>
           ELSE \E yes \in BOOLEAN :
                  /\ answers' = (asg_name :> (IF yes THEN "yes" ELSE "no")) @@ answers
                  /\ IF yes
                     THEN /\ terminate_calls' =
                                Append(terminate_calls,
                                       [instance_ids |-> instance_ids,
                                        profile |-> env_map[LowerTok(env_arg)]])
                          /\ \/ UNCHANGED <<exc, pc>>
                             \/ /\ exc' = "CalledProcessError"
                                /\ pc' = "raised"
                     ELSE UNCHANGED <<exc, pc, terminate_calls>>
    /\ next_asg' = next_asg + 1
    /\ UNCHANGED <<otherVars, variant, env_arg, inventory, choices, selected_asgs>>

\* the loop is over: the closing message
TerminateDone ==
    /\ pc = "terminate"
    /\ next_asg > Len(selected_asgs)
    /\ pc' = "returned"
    /\ UNCHANGED <<otherVars, exc, terminateVars>>

NextTerminate ==
    \/ CheckEnvironment
    \/ DescribeAndFilter
    \/ SelectGroups
    \/ TerminateGroup
    \/ TerminateDone

SpecTerminate == InitTerminate /\ [][NextTerminate]_vars

\* ------------------------------------------------------------------------
\* Properties
\* ------------------------------------------------------------------------
Requested == Range(services)

\* the run got past argument parsing and the checkout
CheckoutOk == exc \notin {"UsageError", "CalledProcessError"}

\* results still holds what the build loop assigned
Building == pc \in {"services", "files"}

BuildFinished == (pc = "services" /\ i > Len(services)) \/ exc = "NameError"

Fragments(svc) == Range(built[svc])

BuiltKeys(svc) == UNION {fr.keys : fr \in Fragments(svc)}

AllBuilt == UNION {{<<svc, key>> : key \in BuiltKeys(svc)} : svc \in DOMAIN built}

\* the (env, url) entries of results[svc]
Targets(svc) ==
    UNION {{<<env, url>> : url \in DictKeys(results[svc][env])} : env \in DOMAIN results[svc]}

TargetCount(svc) ==
    Cardinality(UNION {{<<env, k>> : k \in 1..Len(results[svc][env])}
                          : env \in DOMAIN results[svc]})

\* the entry of a built target in results carries a probe outcome
HasResult(svc, key) ==
    /\ svc \in DOMAIN results
    /\ key[1] \in DOMAIN results[svc]
    /\ \E k \in 1..Len(results[svc][key[1]]) :
          /\ results[svc][key[1]][k].url = key[2]
          /\ results[svc][key[1]][k].info.status # StatusNone

\* C1: when a run that got past the checkout has ended, the report holds an
\* entry for every (environment, requested service) pair, also for services
\* without fragments or targets.
C1_ReportHasEveryPair ==
    (pc = "done" /\ CheckoutOk) =>
        \A svc \in Requested : \A env \in Range(ENVIRONMENTS) :
            svc \in DOMAIN results /\ env \in DOMAIN results[svc]

\* C2: when the run has ended, every target that was built was requested by
\* exactly one HTTP GET and has exactly one result in the report.
C2_EveryTargetProbedOnce ==
    pc = "done" =>
        /\ Len(http_gets) = Cardinality(AllBuilt)
        /\ \A t \in AllBuilt :
              /\ \E k \in 1..Len(http_gets) : http_gets[k] = t[2][2]
              /\ HasResult(t[1], t[2])

\* a fragment the build loop expands: visibility named, one path or more
Expanded(fr) == fr.keys # {}

DeclaredPaths(file) == Range(ApiLocations(FileContent(file)))

NamesVisibility(file) ==
    \E k \in 1..Len(file) : LowerTok(file[k]) \in {"extern", "external", "intern", "internal"}

RECURSIVE SumOfKeys(_)
SumOfKeys(frs) ==
    IF frs = <<>> THEN 0 ELSE Cardinality(Head(frs).keys) + SumOfKeys(Tail(frs))

\* C3 (as stated): the targets of a service are those of its fragments, 4 x
\* paths x suffixes each, with no deduplication: their number is the sum over
\* the fragments.
C3_NoDeduplication ==
    Building =>
        \A svc \in DOMAIN built :
            /\ \A fr \in Fragments(svc) :
                  (NamesVisibility(fr.file) /\ DeclaredPaths(fr.file) # {}) =>
                      Cardinality(fr.keys) =
                          4 * Cardinality(DeclaredPaths(fr.file)) * Len(service_suffix_map[svc])
            /\ TargetCount(svc) = SumOfKeys(built[svc])

\* C3 (amended): every fragment with a visibility and a declared path assigns
\* 4 x distinct paths x suffixes (environment, URL) keys, one per triple; the
\* targets of a service are the union of its fragments' keys, a URL assigned
\* by two fragments being held once.
C3_TargetsPerFragment ==
    Building =>
        \A svc \in DOMAIN built :
            /\ \A fr \in Fragments(svc) :
                  (NamesVisibility(fr.file) /\ DeclaredPaths(fr.file) # {}) =>
                      /\ Cardinality(fr.keys) =
                            4 * Cardinality(DeclaredPaths(fr.file)) * Len(service_suffix_map[svc])
                      /\ \A env \in Range(ENVIRONMENTS) :
                            Cardinality({key \in fr.keys : key[1] = env}) =
                                Cardinality(DeclaredPaths(fr.file)) * Len(service_suffix_map[svc])
            /\ Targets(svc) = BuiltKeys(svc)
            /\ TargetCount(svc) = Cardinality(BuiltKeys(svc))

\* the spec's example (orders-extern.conf, two paths, default suffixes: 24
\* targets) next to a second fragment of the service that declares one of
\* the same URLs
C3_Witness ==
    /\ Building
    /\ <<"orders">> \in DOMAIN built
    /\ \E fr, other \in Fragments(<<"orders">>) :
          /\ fr.file = <<"orders", "-", "extern", ".conf">>
          /\ Cardinality(fr.keys) = 24
          /\ other # fr
          /\ other.keys \cap fr.keys # {}

\* the host part of a URL: what precedes the first "/" of the path
RECURSIVE HostOf(_)
HostOf(url) ==
    IF url = <<>> \/ Head(url) = "/" THEN <<>> ELSE <<Head(url)>> \o HostOf(Tail(url))

HostsIn(fr, env) == {HostOf(key[2]) : key \in {k \in fr.keys : k[1] = env}}

AllFragments == UNION {Fragments(svc) : svc \in DOMAIN built}

\* C4: the host prefix is fixed by (environment, visibility): one host per
\* fragment and environment, https://{env}01... outside prod, no numeric
\* suffix in prod, and never the same host for an internal and an external
\* fragment in one environment.
C4_HostPrefixByVisibility ==
    \A fr \in AllFragments : \A env \in Range(ENVIRONMENTS) :
        Expanded(fr) =>
            /\ Cardinality(HostsIn(fr, env)) = 1
            /\ \A h \in HostsIn(fr, env) :
                  /\ env # "prod" => StartsWith(h, <<"https://", env, "01">>)
                  /\ env = "prod" => "01" \notin Range(h)
            /\ \A other \in AllFragments :
                  (Expanded(other) /\ Visibility(fr.file) # Visibility(other.file)) =>
                      HostsIn(fr, env) \cap HostsIn(other, env) = {}

\* the reserved prefix, compared case-insensitively
IsReservedName(svc) == svc # <<>> /\ LowerTok(svc[1]) = "bremployeeportal"

ExpectedSuffixes(svc) ==
    IF IsReservedName(svc)
    THEN << <<"healthcheck">> >>
    ELSE << <<"v1", "/", "statuscheck">>, <<"v1", "/", "resourcecheck">>,
            <<"v1", "/", "resourceinspect">> >>

SuffixesSelected == Building \/ exc = "NameError"

\* C5: the suffix set of a service is a function of its name alone: the
\* single suffix healthcheck for a name that begins, in any case, with
\* bremployeeportal, the three default suffixes for any other name, whatever
\* else is requested and in whatever order; the URLs built for the service
\* end in these suffixes.
C5_SuffixSelection ==
    SuffixesSelected =>
        /\ DOMAIN service_suffix_map = Requested
        /\ \A svc \in Requested : service_suffix_map[svc] = ExpectedSuffixes(svc)
        /\ \A svc \in DOMAIN built : \A key \in BuiltKeys(svc) :
              \E suf \in Range(ExpectedSuffixes(svc)) : EndsWith(key[2], suf)
        /\ \A svc \in DOMAIN built : \A fr \in Fragments(svc) : \A env \in Range(ENVIRONMENTS) :
              Expanded(fr) =>
                  Cardinality({key \in fr.keys : key[1] = env}) =
                      Cardinality(DeclaredPaths(fr.file)) * Len(ExpectedSuffixes(svc))

\* a reserved name in upper case got its single suffix and its URLs, next
\* to a service with the default suffixes
C5_Witness ==
    /\ SuffixesSelected
    /\ <<"BREmployeePortal">> \in DOMAIN built
    /\ BuiltKeys(<<"BREmployeePortal">>) # {}
    /\ \E svc \in Requested : ~IsReservedName(svc) /\ Len(service_suffix_map[svc]) = 3

\* ------------------------------------------------------------------------
\* C6: classification of one probe
\* ------------------------------------------------------------------------
\* the body lines that match a keyword, in body order
MatchingLines(text) == SelectSeq(splitlines(text), PatternSearch)

\* the priority list of the classification rule
ClaimedClass(resp) ==
    IF resp.transport # "ok" THEN "connection_error"
    ELSE IF resp.status_code >= 500 /\ resp.status_code <= 599 THEN "server_error"
    ELSE IF resp.status_code = 404 THEN "not_found"
    ELSE IF resp.status_code = 200 /\ MatchingLines(resp.text) # <<>> THEN "content_failure"
    ELSE IF resp.status_code = 200 THEN "ok"
    ELSE "failure"

\* the class a printed line of the detailed report shows
ShownClass(d) ==
    CASE d.kind = "OK"                 -> "ok"
      [] d.kind = "HTTP_5xx"           -> "server_error"
      [] d.kind = "HTTP_404"           -> "not_found"
      [] d.kind = "FAILED_in_response" -> "content_failure"
      [] OTHER -> IF d.status.kind = "str" THEN "connection_error" ELSE "failure"

\* the counters the summary holds after one probe of class c
CountedAs(c) ==
    CASE c = "ok"              -> [ZeroTotals EXCEPT !.total_ok = 1]
      [] c = "server_error"    -> [ZeroTotals EXCEPT !.total_5xx = 1]
      [] c = "not_found"       -> [ZeroTotals EXCEPT !.total_404 = 1]
      [] c = "content_failure" -> [ZeroTotals EXCEPT !.total_failed_content = 1]
      [] OTHER                 -> ZeroTotals

\* what holds of every probe whichever way the detail line is read
ClassifiedByPriority ==
    /\ Len(detail_out) = 1
    /\ Len(http_gets) = 1
    /\ ShownClass(detail_out[1]) = ClaimedClass(response)
    /\ ClaimedClass(response) = "failure" =>
          detail_out[1].status = StatusInt(response.status_code)
    /\ ClaimedClass(response) # "content_failure" => detail_out[1].line = NoneLine
    /\ totals = CountedAs(ShownClass(detail_out[1]))

Warned(msg, arg) == \E k \in 1..Len(stdout) : stdout[k] = [msg |-> msg, arg |-> arg]

\* C7: a fragment whose name has neither extern nor intern yields no target
\* and a warning; the other fragments of the service and the other services
\* are still processed.
C7_UndeterminedFragmentSkipped ==
    /\ \A svc \in DOMAIN built : \A fr \in Fragments(svc) :
          ~NamesVisibility(fr.file) =>
              /\ fr.keys = {}
              /\ Warned("no_internal_external", fr.file)
              /\ Building => Targets(svc) = BuiltKeys(svc)
    /\ Building =>
          \A svc \in DOMAIN results :
              (\A f \in Range(MatchingFiles(svc)) : ~NamesVisibility(f)) => Targets(svc) = {}
    /\ BuildFinished =>
          \A svc \in Requested : \A f \in Range(MatchingFiles(svc)) :
              /\ svc \in DOMAIN built
              /\ \E fr \in Fragments(svc) :
                    /\ fr.file = f
                    /\ (NamesVisibility(f) /\ DeclaredPaths(f) # {}) =>
                          Cardinality(fr.keys) =
                              4 * Cardinality(DeclaredPaths(f)) * Len(ExpectedSuffixes(svc))

\* svcA.conf (location /api) was skipped, and a later fragment of the same
\* service and a later service were expanded
C7_Witness ==
    /\ BuildFinished
    /\ <<"svcA">> \in DOMAIN built
    /\ Len(built[<<"svcA">>]) = 2
    /\ built[<<"svcA">>][1] = [file |-> <<"svcA", ".conf">>, keys |-> {}]
    /\ built[<<"svcA">>][2].keys # {}
    /\ Warned("no_internal_external", <<"svcA", ".conf">>)
    /\ Len(services) = 2 /\ services[1] = <<"svcA">> /\ services[2] = <<"svcA", "v2">>
    /\ services[2] \in DOMAIN built /\ BuiltKeys(services[2]) # {}

\* C8: a failing probe never aborts the run: when a run that got past the
\* checkout has ended, every built target has its result recorded and
\* printed, and the report was produced.
C8_ProbeFailureNeverAborts ==
    (pc = "done" /\ CheckoutOk) =>
        /\ \A t \in AllBuilt : HasResult(t[1], t[2])
        /\ Len(detail_out) = Cardinality(AllBuilt)
        /\ exc # "NameError"

\* C9: a requested service without a fragment never aborts the others: when
\* such a run has ended, every other requested service that has fragments
\* has its targets built, probed and reported, wherever the unknown service
\* stands in the list.
C9_MissingFragmentNeverAborts ==
    (pc = "done" /\ CheckoutOk /\ \E svc \in Requested : MatchingFiles(svc) = <<>>) =>
        \A svc \in Requested :
            MatchingFiles(svc) # <<>> =>
                /\ svc \in DOMAIN built
                /\ svc \in DOMAIN results
                /\ \A key \in BuiltKeys(svc) : HasResult(svc, key)

\* C10: a failed checkout and an empty service list abort before any HTTP
\* probe, and they are the only fatal conditions: a run with a service name
\* and a successful checkout ends without an error.
C10_OnlyFatalConditions ==
    /\ ~CheckoutOk => http_gets = <<>>
    /\ (pc = "done" /\ services # <<>> /\ exc # "CalledProcessError") => exc = None

\* ------------------------------------------------------------------------
\* C17
\* ------------------------------------------------------------------------
\* the body of status() was entered: click accepted the arguments
BodyEntered == exc # "UsageError"

\* C17: whenever the command has ended, normally or through an error raised
\* in the checkout, the build loop, the request loop or the report, the
\* local clone at LOCAL_REPO_PATH does not exist.
C17_CloneRemovedAtEnd ==
    (pc = "done" /\ BodyEntered) => ~repo_exists

\* a run that cloned, built targets and ended through the error of the
\* request loop
C17_Witness ==
    /\ pc = "done"
    /\ ~repo_exists
    /\ exc = "NameError"
    /\ AllBuilt # {}

\* ------------------------------------------------------------------------
\* The request loop and the report
\* ------------------------------------------------------------------------
\* the URLs of output probed so far, each with the environment it was built for
Probed == SubSeq(Items(output), 1, n)

FiledUnder(svc, env, url) ==
    /\ svc \in DOMAIN results
    /\ env \in DOMAIN results[svc]
    /\ url \in DictKeys(results[svc][env])

ResultsIn(env) ==
    Concat([x \in 1..Len(results_order.svcs) |->
              IF env \in DOMAIN results[results_order.svcs[x]]
              THEN results[results_order.svcs[x]][env] ELSE <<>>])

AllOk(urls_info) ==
    \A x \in 1..Len(urls_info) : DetailLine(urls_info[x].info).kind = "OK"

Counted(t) == t.total_ok + t.total_5xx + t.total_404 + t.total_failed_content

IndexIn(s, e) == CHOOSE x \in 1..Len(s) : s[x] = e

EnvIndex(env) == IndexIn(ENVIRONMENTS, env)

\* position of a service in the mapping the caller supplied
SvcIndex(svc) == CHOOSE x \in 1..Len(output) : output[x].svc = svc

\* position of a URL in the order its service's targets were supplied
UrlIndex(svc, url) ==
    LET urls == output[SvcIndex(svc)].urls
    IN  CHOOSE x \in 1..Len(urls) : urls[x].url = url

SecondRunEnded == run = 2 /\ pc = "done"

SameCheckoutOutcome ==
    (exc = "CalledProcessError") <=> (first_run.exc = "CalledProcessError")

PromoteEnded == pc \in {"returned", "raised"}

GitRan(cmd) == cmd \in Range(git_cmds)

\* the entry of the source mapping a requested service matches
Matched(svc) == src_services[Match(src_services, svc)]

MatchedNames ==
    {Matched(svc).name : svc \in {r \in Range(services) : Match(src_services, r) # 0}}

\* C15: when promote_services has ended with the commit confirmed, the
\* target file at the head of the remote holds the source's version for
\* every requested service that matches a key of the source mapping, its
\* other entries are those of the target file that was cloned, and the
\* source file is the one that was cloned.
C15_PromotedVersionsPushed ==
    (PromoteEnded /\ confirmed = "yes") =>
        /\ remote.tgt.kind = "json"
        /\ \A svc \in Range(services) :
              Match(src_services, svc) # 0 =>
                 Get(remote.tgt.services, Matched(svc).name) = Matched(svc).version
        /\ \A name \in PromoteNames \ MatchedNames :
              Get(remote.tgt.services, name) = Get(worktree.tgt.services, name)
        /\ remote.src = worktree.src

\* an update is a requested service found in the source whose version
\* differs from the one of the target file
IsUpdate(u) ==
    \E svc \in Range(services) :
       /\ Match(src_services, svc) # 0
       /\ u[1] = Matched(svc).name
       /\ u[3] = Matched(svc).version
       /\ u[2] = Get(worktree.tgt.services, u[1])
       /\ u[2] # u[3]

\* C18: git add, commit and push run only after at least one update was
\* computed and the prompt was answered yes; an empty service list clones
\* nothing; without updates or with the prompt declined the run ends
\* without a commit or a push.
C18_GitOnlyAfterUpdateAndConfirm ==
    /\ (GitRan("add") \/ GitRan("commit") \/ GitRan("push")) =>
          /\ updates # <<>>
          /\ \A x \in 1..Len(updates) : IsUpdate(updates[x])
          /\ confirmed = "yes"
    /\ services = <<>> => (git_cmds = <<>> /\ ~tmpdir_exists)
    /\ (PromoteEnded /\ (updates = <<>> \/ confirmed # "yes")) =>
          (~GitRan("add") /\ ~GitRan("commit") /\ ~GitRan("push"))

\* two services were requested, one of them gave an update, the prompt was
\* answered yes and git commit ran
C18_Witness ==
    /\ Len(services) = 2
    /\ Len(updates) = 1
    /\ confirmed = "yes"
    /\ GitRan("commit")

\* C19: whenever promote_services has ended after the temporary clone
\* directory was created, the directory has been removed.
C19_TmpdirRemovedAtEnd ==
    (PromoteEnded /\ GitRan("clone")) => ~tmpdir_exists

\* ------------------------------------------------------------------------
\* terminate_asg_instances
\* ------------------------------------------------------------------------
\* the instances aws ec2 terminate-instances was issued for
Terminated == UNION {Range(terminate_calls[x].instance_ids) : x \in 1..Len(terminate_calls)}

Answer(name) == IF name \in DOMAIN answers THEN answers[name] ELSE None

\* the group carries platform=onviobr and env=<env> or name=<env>
CarriesTags(asg) ==
    /\ Tag("platform", "onviobr") \in asg.Tags
    /\ \E t \in asg.Tags : t.Key \in {"env", "name"} /\ LowerTok(t.Value) = LowerTok(env_arg)

====
